---- MODULE Spec2Model ----
(***************************************************************************)
(* Model of the Trace zone graph service (src/_utils/services/graph.ts)    *)
(* of the CEBE-X ranking engine (src/_utils/hooks/index.ts) and of the     *)
(* application store (src/_utils/state/traceStore.ts).                     *)
(*                                                                         *)
(* Graph values live in a heap of objects so that identity and in-place    *)
(* mutation are observable: an operation takes a reference, allocates a    *)
(* fresh object for its result (or returns the reference it was given) and *)
(* the caller keeps the reference it passed in.                            *)
(*                                                                         *)
(* Numbers: JavaScript numbers are modelled as exact rationals [n, d];     *)
(* binary floating-point rounding is not modelled.                         *)
(***************************************************************************)
EXTENDS Integers, Sequences, FiniteSets, TLC

VARIABLES
    heap,      \* object store: reference -> ZoneGraph value (or NoGraph)
    graph,     \* the caller's current graph reference (`graph = addZone(graph, z)`)
    prior,     \* the reference the caller passed to the last operation
    now,       \* wall clock read by Date.now()
    last,      \* the last graph call: operation, argument, input reference and a copy of the input value
    ops,       \* number of calls made so far
    rq,        \* ranking input: query
    rep,       \* ranking input: episode
    rg,        \* ranking input: graph
    rpriors,   \* ranking input: objectPriors
    rres,      \* outcome of the ranking or scoring call
    store,     \* the Zustand store (TraceStore state)
    view,      \* what the hooks' last render read from the store
    inf,       \* the useState cell of useInference
    pc,        \* where the running inferLossLocation call stands
    calls      \* the graph updates issued through useGraph on a loaded graph

vars == <<heap, graph, prior, now, last, ops, rq, rep, rg, rpriors, rres, store,
          view, inf, pc, calls>>
hookVars == <<view, inf, pc, calls>>
graphVars == <<heap, graph, prior, now, last, ops>>
rankVars == <<rq, rep, rg, rpriors, rres>>

----------------------------------------------------------------------------
(* Bounds *)

MaxOps == 3
MaxTime == 1
MaxRankZones == 2
MaxDisruptions == 2
MaxHomeZones == 16
MaxGrowth == 5

----------------------------------------------------------------------------
(* Exact rational arithmetic for JavaScript numbers *)

RECURSIVE GCD(_, _)
GCD(a, b) == IF b = 0 THEN a ELSE GCD(b, a % b)

Abs(x) == IF x < 0 THEN -x ELSE x

Rat(n, d) ==
    LET g == GCD(Abs(n), Abs(d))
        s == IF d < 0 THEN -1 ELSE 1
    IN  [n |-> (s * n) \div g, d |-> (s * d) \div g]

RInt(i) == [n |-> i, d |-> 1]
\* Sums and comparisons go through the least common denominator, which keeps
\* the intermediate products small.
RAdd(x, y) ==
    LET g == GCD(x.d, y.d)
    IN  Rat(x.n * (y.d \div g) + y.n * (x.d \div g), (x.d \div g) * y.d)
RSub(x, y) == RAdd(x, [n |-> -y.n, d |-> y.d])
RMul(x, y) ==
    LET a == Rat(x.n, y.d)
        b == Rat(y.n, x.d)
    IN  [n |-> a.n * b.n, d |-> a.d * b.d]
RDivInt(x, i) == Rat(x.n, x.d * i)
RLess(x, y) ==
    LET g == GCD(x.d, y.d)
    IN  x.n * (y.d \div g) < y.n * (x.d \div g)
RLeq(x, y) == ~RLess(y, x)
RMin(x, y) == IF RLess(y, x) THEN y ELSE x
RMax(x, y) == IF RLess(x, y) THEN y ELSE x
ROne == RInt(1)
RZero == RInt(0)

\* Math.round(s / 2) for an integer s: halves round towards +infinity.
RoundHalf(s) == (s + 1) \div 2

----------------------------------------------------------------------------
(* Zone graph service *)

NoGraph == [absent |-> TRUE]
Refs == {1, 2}
\* The reference a `{ ...graph, ... }` object literal allocates: the slot the
\* caller's argument does not occupy.
Fresh(r) == 3 - r

createEmptyGraph(t) ==
    [ graphId         |-> <<"graph_", t>>,
      createdTime     |-> t,
      lastUpdatedTime |-> t,
      zones           |-> <<>>,
      edges           |-> <<>>,
      metadata        |-> [versionId |-> 1, estimatedHomeSize |-> "small", zoneCount |-> 0] ]

HasZone(g, id) == \E i \in 1..Len(g.zones) : g.zones[i].zoneId = id

\* Variant: zoneCount taken from the length before the append.
addZone_staleCount(h, r, zone, t) ==
    IF HasZone(h[r], zone.zoneId)
    THEN [heap |-> h, ref |-> r]
    ELSE [heap |-> [h EXCEPT ![Fresh(r)] =
                       [h[r] EXCEPT !.zones = Append(h[r].zones, zone),
                                    !.metadata.zoneCount = Len(h[r].zones),
                                    !.lastUpdatedTime = t]],
          ref  |-> Fresh(r)]

\* Variant: duplicates detected by comparing whole zones instead of zoneIds.
addZone_deepEqual(h, r, zone, t) ==
    IF \E i \in 1..Len(h[r].zones) : h[r].zones[i] = zone
    THEN [heap |-> h, ref |-> r]
    ELSE [heap |-> [h EXCEPT ![Fresh(r)] =
                       [h[r] EXCEPT !.zones = Append(h[r].zones, zone),
                                    !.metadata.zoneCount = Len(h[r].zones) + 1,
                                    !.lastUpdatedTime = t]],
          ref  |-> Fresh(r)]

\* Variant: `graph.zones.push(zone)` on the argument, which is then returned.
addZone_inPlace(h, r, zone, t) ==
    IF HasZone(h[r], zone.zoneId)
    THEN [heap |-> h, ref |-> r]
    ELSE [heap |-> [h EXCEPT ![r] =
                       [h[r] EXCEPT !.zones = Append(h[r].zones, zone),
                                    !.metadata.zoneCount = Len(h[r].zones) + 1,
                                    !.lastUpdatedTime = t]],
          ref  |-> r]

\* Variant: the stored size estimate follows the zone count.
addZone_refreshSize(h, r, zone, t) ==
    IF HasZone(h[r], zone.zoneId)
    THEN [heap |-> h, ref |-> r]
    ELSE [heap |-> [h EXCEPT ![Fresh(r)] =
                       [h[r] EXCEPT !.zones = Append(h[r].zones, zone),
                                    !.metadata.zoneCount = Len(h[r].zones) + 1,
                                    !.metadata.estimatedHomeSize =
                                        IF Len(h[r].zones) + 1 < 5 THEN "small"
                                        ELSE IF Len(h[r].zones) + 1 < 15 THEN "medium"
                                        ELSE "large",
                                    !.lastUpdatedTime = t]],
          ref  |-> Fresh(r)]

addZone(h, r, zone, t) ==
    IF HasZone(h[r], zone.zoneId)
    THEN [heap |-> h, ref |-> r]
    ELSE [heap |-> [h EXCEPT ![Fresh(r)] =
                       [h[r] EXCEPT !.zones = Append(h[r].zones, zone),
                                    !.metadata.zoneCount = Len(h[r].zones) + 1,
                                    !.lastUpdatedTime = t]],
          ref  |-> Fresh(r)]

SamePair(e, f) == e.fromZoneId = f.fromZoneId /\ e.toZoneId = f.toZoneId

EitherWay(e, f) ==
    \/ SamePair(e, f)
    \/ (e.fromZoneId = f.toZoneId /\ e.toZoneId = f.fromZoneId)

\* Variant: the lookup ignores the direction of the edge.
findIndex_undirected(edges, edge) ==
    IF \E i \in 1..Len(edges) : EitherWay(edges[i], edge)
    THEN CHOOSE i \in 1..Len(edges) :
            /\ EitherWay(edges[i], edge)
            /\ \A j \in 1..(i - 1) : ~EitherWay(edges[j], edge)
    ELSE 0

\* Array.prototype.findIndex: the first matching index, 0 standing for -1.
findIndex(edges, edge) ==
    IF \E i \in 1..Len(edges) : SamePair(edges[i], edge)
    THEN CHOOSE i \in 1..Len(edges) :
            /\ SamePair(edges[i], edge)
            /\ \A j \in 1..(i - 1) : ~SamePair(edges[j], edge)
    ELSE 0

\* Variant: the new observation overwrites the stored signature.
mergeEdge_overwrite(existing, edge, t) ==
    [existing EXCEPT
        !.kinematicSignature = edge.kinematicSignature,
        !.weight = RMin(ROne, RAdd(existing.weight, RMul(edge.weight, Rat(1, 10)))),
        !.lastUsedTime = t]

\* Variant: the weight is averaged like the signature fields.
mergeEdge_meanWeight(existing, edge, t) ==
    [existing EXCEPT
        !.kinematicSignature =
            [ medianSteps |-> RoundHalf(existing.kinematicSignature.medianSteps
                                          + edge.kinematicSignature.medianSteps),
              medianTurnAngle |-> RDivInt(RAdd(existing.kinematicSignature.medianTurnAngle,
                                               edge.kinematicSignature.medianTurnAngle), 2),
              medianTransitionDurationMs |->
                  RoundHalf(existing.kinematicSignature.medianTransitionDurationMs
                              + edge.kinematicSignature.medianTransitionDurationMs) ],
        !.weight = RDivInt(RAdd(existing.weight, edge.weight), 2),
        !.lastUsedTime = t]

\* Variant: the merged weight is not capped.
mergeEdge_uncappedWeight(existing, edge, t) ==
    [existing EXCEPT
        !.kinematicSignature =
            [ medianSteps |-> RoundHalf(existing.kinematicSignature.medianSteps
                                          + edge.kinematicSignature.medianSteps),
              medianTurnAngle |-> RDivInt(RAdd(existing.kinematicSignature.medianTurnAngle,
                                               edge.kinematicSignature.medianTurnAngle), 2),
              medianTransitionDurationMs |->
                  RoundHalf(existing.kinematicSignature.medianTransitionDurationMs
                              + edge.kinematicSignature.medianTransitionDurationMs) ],
        !.weight = RAdd(existing.weight, RMul(edge.weight, Rat(1, 10))),
        !.lastUsedTime = t]

mergeEdge(existing, edge, t) ==
    [existing EXCEPT
        !.kinematicSignature =
            [ medianSteps |-> RoundHalf(existing.kinematicSignature.medianSteps
                                          + edge.kinematicSignature.medianSteps),
              medianTurnAngle |-> RDivInt(RAdd(existing.kinematicSignature.medianTurnAngle,
                                               edge.kinematicSignature.medianTurnAngle), 2),
              medianTransitionDurationMs |->
                  RoundHalf(existing.kinematicSignature.medianTransitionDurationMs
                              + edge.kinematicSignature.medianTransitionDurationMs) ],
        !.weight = RMin(ROne, RAdd(existing.weight, RMul(edge.weight, Rat(1, 10)))),
        !.lastUsedTime = t]

\* Variant: an edge is stored only between zones of the graph.
addEdge_zonesOnly(h, r, edge, t) ==
    IF ~HasZone(h[r], edge.fromZoneId) \/ ~HasZone(h[r], edge.toZoneId)
    THEN [heap |-> h, ref |-> r]
    ELSE
    LET existingEdgeIndex == findIndex(h[r].edges, edge)
        newEdges ==
            IF existingEdgeIndex >= 1
            THEN [idx \in 1..Len(h[r].edges) |->
                     IF idx = existingEdgeIndex
                     THEN mergeEdge(h[r].edges[existingEdgeIndex], edge, t)
                     ELSE h[r].edges[idx]]
            ELSE Append(h[r].edges, edge)
    IN  [heap |-> [h EXCEPT ![Fresh(r)] =
                      [h[r] EXCEPT !.edges = newEdges, !.lastUpdatedTime = t]],
         ref  |-> Fresh(r)]

addEdge(h, r, edge, t) ==
    LET existingEdgeIndex == findIndex(h[r].edges, edge)
        newEdges ==
            IF existingEdgeIndex >= 1
            THEN [idx \in 1..Len(h[r].edges) |->
                     IF idx = existingEdgeIndex
                     THEN mergeEdge(h[r].edges[existingEdgeIndex], edge, t)
                     ELSE h[r].edges[idx]]
            ELSE Append(h[r].edges, edge)
    IN  [heap |-> [h EXCEPT ![Fresh(r)] =
                      [h[r] EXCEPT !.edges = newEdges, !.lastUpdatedTime = t]],
         ref  |-> Fresh(r)]

NoZone == "null"

\* Variant: the edge starts at transition.fromZoneId as it is.
transitionEdge_noSentinel(transition) ==
    [ fromZoneId |-> transition.fromZoneId,
      toZoneId   |-> transition.toZoneId,
      kinematicSignature |->
          [ medianSteps |-> transition.kinematicSignature.stepsTaken,
            medianTurnAngle |-> transition.kinematicSignature.turnAngleDegrees,
            medianTransitionDurationMs |-> transition.kinematicSignature.transitionDurationMs ],
      weight |-> ROne,
      lastUsedTime |-> transition.timestamp ]

\* The ZoneEdge recordTransition builds: `transition.fromZoneId || 'entry'`.
transitionEdge(transition) ==
    [ fromZoneId |-> IF transition.fromZoneId = NoZone \/ transition.fromZoneId = ""
                     THEN "entry" ELSE transition.fromZoneId,
      toZoneId   |-> transition.toZoneId,
      kinematicSignature |->
          [ medianSteps |-> transition.kinematicSignature.stepsTaken,
            medianTurnAngle |-> transition.kinematicSignature.turnAngleDegrees,
            medianTransitionDurationMs |-> transition.kinematicSignature.transitionDurationMs ],
      weight |-> ROne,
      lastUsedTime |-> transition.timestamp ]

recordTransition(h, r, transition, t) == addEdge(h, r, transitionEdge(transition), t)

\* zones.filter(z => z.stability >= minStability), in the order of `zones`.
RECURSIVE filterStable(_, _)
filterStable(zones, minStability) ==
    IF zones = <<>> THEN <<>>
    ELSE LET rest == filterStable(Tail(zones), minStability)
         IN  IF RLeq(minStability, Head(zones).stability)
             THEN <<Head(zones)>> \o rest
             ELSE rest

\* Array.prototype.sort with (a, b) => b.frequency - a.frequency: a stable
\* sort, so zones of equal frequency keep their relative order.
RECURSIVE InsertByFrequency(_, _)
InsertByFrequency(sorted, z) ==
    IF sorted = <<>> THEN <<z>>
    ELSE IF Head(sorted).frequency >= z.frequency
         THEN <<Head(sorted)>> \o InsertByFrequency(Tail(sorted), z)
         ELSE <<z>> \o sorted

RECURSIVE sortByFrequency(_)
sortByFrequency(zs) ==
    IF zs = <<>> THEN <<>>
    ELSE InsertByFrequency(sortByFrequency(SubSeq(zs, 1, Len(zs) - 1)), zs[Len(zs)])

\* The default parameter `minStability = 0`.
MinStability(arg) == IF arg = NoGraph THEN RZero ELSE arg

\* Variant: sorts graph.zones itself and filters afterwards.
listZones_sortInPlace(h, r, minStability) ==
    LET sorted == sortByFrequency(h[r].zones)
    IN  [ heap  |-> [h EXCEPT ![r].zones = sorted],
          value |-> filterStable(sorted, MinStability(minStability)) ]

\* listZones: filter allocates a new array and sort works on that array, so
\* the heap is returned as it was.
listZones(h, r, minStability) ==
    [ heap  |-> h,
      value |-> sortByFrequency(filterStable(h[r].zones, MinStability(minStability))) ]

RECURSIVE filterOutgoing(_, _)
filterOutgoing(edges, zoneId) ==
    IF edges = <<>> THEN <<>>
    ELSE LET rest == filterOutgoing(Tail(edges), zoneId)
         IN  IF Head(edges).fromZoneId = zoneId
             THEN <<Head(edges)>> \o rest
             ELSE rest

RECURSIVE InsertByWeight(_, _)
InsertByWeight(sorted, e) ==
    IF sorted = <<>> THEN <<e>>
    ELSE IF RLeq(e.weight, Head(sorted).weight)
         THEN <<Head(sorted)>> \o InsertByWeight(Tail(sorted), e)
         ELSE <<e>> \o sorted

RECURSIVE sortByWeight(_)
sortByWeight(es) ==
    IF es = <<>> THEN <<>>
    ELSE InsertByWeight(sortByWeight(SubSeq(es, 1, Len(es) - 1)), es[Len(es)])

\* Variant: the outgoing edges are returned in stored order.
getNeighbors_unsorted(h, r, zoneId) ==
    LET outgoing == filterOutgoing(h[r].edges, zoneId)
    IN  [ heap  |-> h,
          value |-> [i \in 1..Len(outgoing) |-> outgoing[i].toZoneId] ]

getNeighbors(h, r, zoneId) ==
    LET outgoing == sortByWeight(filterOutgoing(h[r].edges, zoneId))
    IN  [ heap  |-> h,
          value |-> [i \in 1..Len(outgoing) |-> outgoing[i].toZoneId] ]

\* Variant: the thresholds are inclusive.
estimateHomeSize_inclusive(h, r) ==
    LET zoneCount == Len(h[r].zones)
    IN  [ heap  |-> h,
          value |-> IF zoneCount <= 5 THEN "small"
                    ELSE IF zoneCount <= 15 THEN "medium"
                    ELSE "large" ]

estimateHomeSize(h, r) ==
    LET zoneCount == Len(h[r].zones)
    IN  [ heap  |-> h,
          value |-> IF zoneCount < 5 THEN "small"
                    ELSE IF zoneCount < 15 THEN "medium"
                    ELSE "large" ]

----------------------------------------------------------------------------
(* Ranking engine *)

Absent == [absent |-> TRUE]
NoEvent == [undefined |-> TRUE]
Unset == [unset |-> TRUE]

\* Model times are multiples of 5 s; Math.exp(-t / 60000) is tabulated on that
\* grid in thousandths (rounded to nearest): ExpTable[k + 1] = exp(-k / 12).
ExpTable ==
    << 1000, 920, 846, 779, 717, 659, 607, 558, 513, 472, 435, 400,
       368, 338, 311, 287, 264, 243, 223, 205, 189, 174, 160, 147,
       135, 125, 115, 105, 97, 89, 82, 76, 69, 64, 59, 54,
       50, 46, 42, 39, 36, 33, 30, 28, 26, 24, 22, 20,
       18, 17, 16, 14, 13, 12, 11, 10, 9, 9, 8, 7,
       7, 6, 6, 5, 5, 4, 4, 4, 3, 3, 3, 3,
       2, 2, 2, 2, 2, 2, 2, 1, 1, 1, 1, 1,
       1, 1, 1, 1, 1, 1, 1, 1 >>

\* exp(+k / 12) for k = 1..12, in thousandths.
ExpTableUp ==
    << 1087, 1181, 1284, 1396, 1517, 1649, 1792, 1948, 2117, 2301, 2501, 2718 >>

RECURSIVE ExpMilli(_)
ExpMilli(t) ==
    LET k == t \div 5000
    IN  IF k >= Len(ExpTable) THEN 0
        ELSE IF k >= 0 THEN ExpTable[k + 1]
        ELSE IF k >= -12 THEN ExpTableUp[-k]
        ELSE (ExpMilli(t + 60000) * 2718) \div 1000

RECURSIVE SumSeverity(_)
SumSeverity(ds) ==
    IF ds = <<>> THEN RZero ELSE RAdd(ds[1].severity, SumSeverity(Tail(ds)))

\* Variant: an empty disruption list counts as no stability at all.
computeCSI_emptyIsZero(disruptions) ==
    IF Len(disruptions) = 0
    THEN RZero
    ELSE LET avgSeverity == RDivInt(SumSeverity(disruptions), Len(disruptions))
         IN  RMax(RZero, RSub(ROne, avgSeverity))

computeCSI(disruptions) ==
    IF Len(disruptions) = 0
    THEN ROne
    ELSE LET avgSeverity == RDivInt(SumSeverity(disruptions), Len(disruptions))
         IN  RMax(RZero, RSub(ROne, avgSeverity))

\* Variant: the sum of the two terms is halved and returned as it is.
computeBLS_uncapped(timeSinceLastTransition, totalTransitions) ==
    LET recencyDecay == Rat(ExpMilli(timeSinceLastTransition), 1000)
        frequencyBoost == RMin(ROne, Rat(totalTransitions, 5))
    IN  RDivInt(RAdd(recencyDecay, frequencyBoost), 2)

computeBLS(timeSinceLastTransition, totalTransitions) ==
    LET recencyDecay == Rat(ExpMilli(timeSinceLastTransition), 1000)
        frequencyBoost == RMin(ROne, Rat(totalTransitions, 5))
    IN  RMin(ROne, RDivInt(RAdd(recencyDecay, frequencyBoost), 2))

\* Variant: the filter ignores query.timeWindow.
InTimeWindow_noWindow(zone, query) == zone.lastSeenTime >= query.lastSeen

InTimeWindow(zone, query) == zone.lastSeenTime >= query.lastSeen - query.timeWindow

InDisruptionWindow(d, zone) ==
    d.timestamp >= zone.lastSeenTime - 10000 /\ d.timestamp <= zone.lastSeenTime

RECURSIVE filterZones(_, _)
\* graph.zones.filter(zone => ...): the zones inside the queried window, in order.
filterZones(zones, query) ==
    IF zones = <<>> THEN <<>>
    ELSE IF InTimeWindow(zones[1], query)
         THEN <<zones[1]>> \o filterZones(Tail(zones), query)
         ELSE filterZones(Tail(zones), query)

RECURSIVE filterDisruptions(_, _)
\* episode.events.disruptions.filter(d => ...): the events of a zone's window, in order.
filterDisruptions(ds, zone) ==
    IF ds = <<>> THEN <<>>
    ELSE IF InDisruptionWindow(ds[1], zone)
         THEN <<ds[1]>> \o filterDisruptions(Tail(ds), zone)
         ELSE filterDisruptions(Tail(ds), zone)

\* Variant: ads is taken from the last event of the window.
zoneScores_lastEvent(zone, episode, t) ==
    LET disruptions == filterDisruptions(episode.events.disruptions, zone)
    IN  [ csi |-> computeCSI(disruptions),
          bls |-> computeBLS(t - zone.lastSeenTime, zone.frequency),
          ads |-> IF Len(disruptions) > 0
                  THEN disruptions[Len(disruptions)].severity ELSE RZero ]

\* The locals csi, bls and ads of the map callback.
zoneScores(zone, episode, t) ==
    LET disruptions == filterDisruptions(episode.events.disruptions, zone)
    IN  [ csi |-> computeCSI(disruptions),
          bls |-> computeBLS(t - zone.lastSeenTime, zone.frequency),
          ads |-> IF Len(disruptions) > 0 THEN disruptions[1].severity ELSE RZero ]

\* Variant: the weights of ads and bls are exchanged.
scoreZone_swappedWeights(zone, episode, t) ==
    LET disruptions == filterDisruptions(episode.events.disruptions, zone)
        scores == zoneScores(zone, episode, t)
        csi == scores.csi
        bls == scores.bls
        ads == scores.ads
        probability ==
            RAdd(RAdd(RMul(Rat(7, 20), ads), RMul(Rat(2, 5), bls)),
                 RMul(Rat(1, 4), RSub(ROne, csi)))
        signalCount ==
            (IF RLess(csi, Rat(1, 2)) THEN 1 ELSE 0)
            + (IF RLess(Rat(1, 2), bls) THEN 1 ELSE 0)
            + (IF RLess(Rat(3, 10), ads) THEN 1 ELSE 0)
        confidence == RMin(ROne, Rat(signalCount, 3))
        searchRadius ==
            IF RLess(confidence, Rat(2, 5)) THEN "wide"
            ELSE IF RLess(Rat(7, 10), confidence) THEN "tight"
            ELSE "moderate"
    IN  [ zoneId |-> zone.zoneId,
          zoneName |-> zone.label,
          probability |-> probability,
          confidence |-> confidence,
          reasoning |-> [disruptionEvent |->
                            IF Len(disruptions) > 0 THEN disruptions[1] ELSE NoEvent],
          searchRadius |-> searchRadius ]

\* Variant: a score on its threshold counts as a signal.
scoreZone_inclusiveSignals(zone, episode, t) ==
    LET disruptions == filterDisruptions(episode.events.disruptions, zone)
        scores == zoneScores(zone, episode, t)
        csi == scores.csi
        bls == scores.bls
        ads == scores.ads
        probability ==
            RAdd(RAdd(RMul(Rat(2, 5), ads), RMul(Rat(7, 20), bls)),
                 RMul(Rat(1, 4), RSub(ROne, csi)))
        signalCount ==
            (IF RLeq(csi, Rat(1, 2)) THEN 1 ELSE 0)
            + (IF RLeq(Rat(1, 2), bls) THEN 1 ELSE 0)
            + (IF RLeq(Rat(3, 10), ads) THEN 1 ELSE 0)
        confidence == RMin(ROne, Rat(signalCount, 3))
        searchRadius ==
            IF RLess(confidence, Rat(2, 5)) THEN "wide"
            ELSE IF RLess(Rat(7, 10), confidence) THEN "tight"
            ELSE "moderate"
    IN  [ zoneId |-> zone.zoneId,
          zoneName |-> zone.label,
          probability |-> probability,
          confidence |-> confidence,
          reasoning |-> [disruptionEvent |->
                            IF Len(disruptions) > 0 THEN disruptions[1] ELSE NoEvent],
          searchRadius |-> searchRadius ]

\* The object the map callback returns for one zone.
scoreZone(zone, episode, t) ==
    LET disruptions == filterDisruptions(episode.events.disruptions, zone)
        scores == zoneScores(zone, episode, t)
        csi == scores.csi
        bls == scores.bls
        ads == scores.ads
        probability ==
            RAdd(RAdd(RMul(Rat(2, 5), ads), RMul(Rat(7, 20), bls)),
                 RMul(Rat(1, 4), RSub(ROne, csi)))
        signalCount ==
            (IF RLess(csi, Rat(1, 2)) THEN 1 ELSE 0)
            + (IF RLess(Rat(1, 2), bls) THEN 1 ELSE 0)
            + (IF RLess(Rat(3, 10), ads) THEN 1 ELSE 0)
        confidence == RMin(ROne, Rat(signalCount, 3))
        searchRadius ==
            IF RLess(confidence, Rat(2, 5)) THEN "wide"
            ELSE IF RLess(Rat(7, 10), confidence) THEN "tight"
            ELSE "moderate"
    IN  [ zoneId |-> zone.zoneId,
          zoneName |-> zone.label,
          probability |-> probability,
          confidence |-> confidence,
          reasoning |-> [disruptionEvent |->
                            IF Len(disruptions) > 0 THEN disruptions[1] ELSE NoEvent],
          searchRadius |-> searchRadius ]

\* objectPriors?.[query.objectType]: the prior label; the falsy outcomes
\* (objectPriors absent, no entry for the object type) are the empty string.
priorFor(objectPriors, query) ==
    IF objectPriors = Absent THEN ""
    ELSE IF query.objectType \in DOMAIN objectPriors
         THEN objectPriors[query.objectType]
         ELSE ""

\* Variant: the boost without the caps at 1.0.
boost_uncapped(candidate, priorZone) ==
    IF candidate.zoneName = priorZone
    THEN [candidate EXCEPT
            !.probability = RMul(candidate.probability, Rat(6, 5)),
            !.confidence = RMul(candidate.confidence, Rat(11, 10))]
    ELSE candidate

\* Variant: the two factors are exchanged.
boost_swappedFactors(candidate, priorZone) ==
    IF candidate.zoneName = priorZone
    THEN [candidate EXCEPT
            !.probability = RMin(ROne, RMul(candidate.probability, Rat(11, 10))),
            !.confidence = RMin(ROne, RMul(candidate.confidence, Rat(6, 5)))]
    ELSE candidate

\* The forEach body that applies the object prior to one candidate.
boost(candidate, priorZone) ==
    IF candidate.zoneName = priorZone
    THEN [candidate EXCEPT
            !.probability = RMin(ROne, RMul(candidate.probability, Rat(6, 5))),
            !.confidence = RMin(ROne, RMul(candidate.confidence, Rat(11, 10)))]
    ELSE candidate

applyPriors(candidates, objectPriors, query) ==
    LET priorZone == priorFor(objectPriors, query)
    IN  IF priorZone # ""
        THEN [i \in 1..Len(candidates) |-> boost(candidates[i], priorZone)]
        ELSE candidates

RECURSIVE InsertDesc(_, _)
\* Insert c after every element whose probability is not smaller.
InsertDesc(sorted, c) ==
    IF sorted = <<>> THEN <<c>>
    ELSE IF RLess(sorted[1].probability, c.probability)
         THEN <<c>> \o sorted
         ELSE <<sorted[1]>> \o InsertDesc(Tail(sorted), c)

RECURSIVE sortByProbability(_)
\* candidates.sort((a, b) => b.probability - a.probability): stable, descending.
sortByProbability(cs) ==
    IF cs = <<>> THEN <<>>
    ELSE InsertDesc(sortByProbability(SubSeq(cs, 1, Len(cs) - 1)), cs[Len(cs)])

Returned(v) == [raised |-> FALSE, value |-> v]
Raised == [raised |-> TRUE, value |-> <<>>]

\* Variant: the candidates are sorted before the object priors are applied.
rankCandidateZones_sortFirst(query, episode, g, objectPriors, t) ==
    IF episode = Absent \/ g = Absent
    THEN Returned(<<>>)
    ELSE IF Len(g.zones) = 0
    THEN Returned(<<>>)
    ELSE IF query = Absent
    THEN Raised
    ELSE LET kept == filterZones(g.zones, query)
             candidates == [i \in 1..Len(kept) |-> scoreZone(kept[i], episode, t)]
         IN  IF kept # <<>> /\ episode.events = Absent
             THEN Raised
             ELSE Returned(applyPriors(sortByProbability(candidates), objectPriors, query))

\* Variant: the guard does not test the episode, whose events are then read
\* for the first zone that passes the filter.
rankCandidateZones_noEpisodeGuard(query, episode, g, objectPriors, t) ==
    IF g = Absent
    THEN Returned(<<>>)
    ELSE IF Len(g.zones) = 0
    THEN Returned(<<>>)
    ELSE IF query = Absent
    THEN Raised
    ELSE LET kept == filterZones(g.zones, query)
         IN  IF kept = <<>> THEN Returned(<<>>)
             ELSE IF episode = Absent THEN Raised
             ELSE IF episode.events = Absent THEN Raised
             ELSE Returned(sortByProbability(applyPriors(
                      [i \in 1..Len(kept) |-> scoreZone(kept[i], episode, t)],
                      objectPriors, query)))

rankCandidateZones(query, episode, g, objectPriors, t) ==
    IF episode = Absent \/ g = Absent
    THEN Returned(<<>>)
    ELSE IF Len(g.zones) = 0
    THEN Returned(<<>>)
    ELSE IF query = Absent
    THEN Raised   \* query.lastSeen is read for the first zone
    ELSE LET kept == filterZones(g.zones, query)
             candidates == [i \in 1..Len(kept) |-> scoreZone(kept[i], episode, t)]
         IN  IF kept # <<>> /\ episode.events = Absent
             THEN Raised   \* episode.events.disruptions is read for the first zone kept
             ELSE Returned(sortByProbability(applyPriors(candidates, objectPriors, query)))

Clamp01(x) == RMax(RZero, RMin(ROne, x))

\* Variant: the three scores are returned as computed.
computeBehavioralScores_unclamped(episode, t) ==
    IF episode = Absent THEN Raised
    ELSE IF episode.events = Absent THEN Raised
    ELSE LET disruptions == episode.events.disruptions
             csi == computeCSI(disruptions)
             bls == computeBLS(t - episode.endTime, Len(episode.events.transitions))
             ads == IF Len(disruptions) > 0 THEN disruptions[1].severity ELSE RZero
         IN  Returned([csi |-> csi, bls |-> bls, ads |-> ads, timestamp |-> t])

\* computeBehavioralScores at wall-clock time t.  The episode is dereferenced
\* without a check (episode.events.disruptions.length is the first read), so
\* an absent episode or an episode without events raises.  avgDisruptions is
\* computed and never used; a zero durationMs makes it Infinity or NaN
\* without raising, so it has no part in the outcome.
computeBehavioralScores(episode, t) ==
    IF episode = Absent THEN Raised
    ELSE IF episode.events = Absent THEN Raised
    ELSE LET disruptions == episode.events.disruptions
             csi == computeCSI(disruptions)
             bls == computeBLS(t - episode.endTime, Len(episode.events.transitions))
             ads == IF Len(disruptions) > 0 THEN disruptions[1].severity ELSE RZero
         IN  Returned([csi |-> Clamp01(csi), bls |-> Clamp01(bls),
                       ads |-> Clamp01(ads), timestamp |-> t])

----------------------------------------------------------------------------
(* Inputs of the graph operations *)

ZoneIds == {"z_001", "z_002"}
Labels == {"Kitchen", "Bedroom"}

\* createMockZone with the fields the tests then overwrite: the stability
\* goes with the label, the visit count with the id.
MockZone(id, label) ==
    [ zoneId |-> id, label |-> label,
      stability |-> IF label = "Kitchen" THEN Rat(9, 10) ELSE Rat(3, 10),
      lastSeenTime |-> 0,
      frequency |-> IF id = "z_001" THEN 2 ELSE 5 ]

ZoneInputs == {MockZone(id, l) : id \in ZoneIds, l \in Labels}

KinSig(i) ==
    IF i = 1
    THEN [medianSteps |-> 10, medianTurnAngle |-> RInt(45), medianTransitionDurationMs |-> 5000]
    ELSE [medianSteps |-> 13, medianTurnAngle |-> RInt(50), medianTransitionDurationMs |-> 6001]

KinSigs == {KinSig(1), KinSig(2)}

EdgePairs == { <<"z_001", "z_002">>, <<"z_002", "z_001">>, <<"z_001", "z_009">> }

\* Observed edges: a kinematic signature with the weight the caller gives it
\* (recordTransition supplies the edges of weight 1.0).
Observations ==
    { [sig |-> 1, weight |-> Rat(1, 2)], [sig |-> 2, weight |-> RZero] }

EdgeInputs ==
    { [ fromZoneId |-> p[1], toZoneId |-> p[2], kinematicSignature |-> KinSig(o.sig),
        weight |-> o.weight, lastUsedTime |-> 0 ] : p \in EdgePairs, o \in Observations }

TransitionInputs ==
    { [ timestamp |-> 0, fromZoneId |-> f, toZoneId |-> "z_002",
        kinematicSignature |->
            [ stepsTaken |-> k.medianSteps, turnAngleDegrees |-> k.medianTurnAngle,
              transitionDurationMs |-> k.medianTransitionDurationMs ] ]
      : f \in {NoZone, "z_001"}, k \in KinSigs }

----------------------------------------------------------------------------
(* The caller: graph = op(graph, arg) *)

NoCall == [op |-> "none"]

\* Objects no variable of the caller refers to are dropped.
Collect(h, live) == [r \in Refs |-> IF r \in live THEN h[r] ELSE NoGraph]

\* graph = op(graph, input); arg is the zone or edge the operation works on.
Apply(op, arg, input, res) ==
    /\ graph' = res.ref
    /\ prior' = graph
    /\ heap' = Collect(res.heap, {res.ref, graph})
    /\ last' = [op |-> op, arg |-> arg, input |-> input, in |-> graph,
                before |-> heap[graph], out |-> res.ref, at |-> now]
    /\ UNCHANGED now

Call(op, arg, res) ==
    /\ ops < MaxOps
    /\ ops' = ops + 1
    /\ Apply(op, arg, arg, res)

CreateEmptyGraph ==
    /\ ops < MaxOps
    /\ ops' = ops + 1
    /\ graph' = Fresh(graph)
    /\ prior' = graph
    /\ heap' = [heap EXCEPT ![Fresh(graph)] = createEmptyGraph(now)]
    /\ last' = NoCall
    /\ UNCHANGED now

AddZone == \E zone \in ZoneInputs : Call("addZone", zone, addZone(heap, graph, zone, now))

AddEdge == \E edge \in EdgeInputs : Call("addEdge", edge, addEdge(heap, graph, edge, now))

RecordTransition ==
    \E tr \in TransitionInputs :
        /\ ops < MaxOps
        /\ ops' = ops + 1
        /\ Apply("recordTransition", transitionEdge(tr), tr,
                 recordTransition(heap, graph, tr, now))

\* The caller goes back to the graph instance it held before the last call.
UsePrior ==
    /\ prior # graph
    /\ graph' = prior
    /\ prior' = graph
    /\ last' = NoCall
    /\ UNCHANGED <<heap, now, ops>>

Tick ==
    /\ now < MaxTime
    /\ now' = now + 1
    /\ UNCHANGED <<heap, graph, prior, last, ops>>

GraphInit ==
    /\ now = 0
    /\ heap = [r \in Refs |-> IF r = 1 THEN createEmptyGraph(0) ELSE NoGraph]
    /\ graph = 1
    /\ prior = 1
    /\ last = NoCall
    /\ ops = 0

RankIdle ==
    /\ rq = Unset /\ rep = Unset /\ rg = Unset /\ rpriors = Unset /\ rres = Unset

Null == [null |-> TRUE]

\* `initialState` of the store; lastUpdate is the Date.now() of module load.
initialState ==
    [ user |-> Null,
      currentEpisode |-> Null,
      zoneGraph |-> Null,
      recentQuery |-> Null,
      collaborationSession |-> Null,
      batteryLevel |-> RInt(100),
      motionActive |-> FALSE,
      lastUpdate |-> 0,
      permissionsGranted |-> [motionFitness |-> FALSE, backgroundProcessing |-> FALSE] ]

\* set(partial): the named fields are replaced, the others kept.
initializeUser(state, user, t) ==
    [state EXCEPT !.user = user, !.lastUpdate = t]

\* Variant: the level is stored as given.
updateBatteryLevel_unclamped(state, level, t) ==
    [state EXCEPT !.batteryLevel = level, !.lastUpdate = t]

updateBatteryLevel(state, level, t) ==
    [state EXCEPT !.batteryLevel = RMax(RZero, RMin(RInt(100), level)),
                  !.lastUpdate = t]

setMotionActive(state, active, t) ==
    [state EXCEPT !.motionActive = active, !.lastUpdate = t]

setCurrentEpisode(state, episode, t) ==
    [state EXCEPT !.currentEpisode = episode, !.lastUpdate = t]

setZoneGraph(state, g, t) ==
    [state EXCEPT !.zoneGraph = g, !.lastUpdate = t]

setRecentQuery(state, query, t) ==
    [state EXCEPT !.recentQuery = query, !.lastUpdate = t]

setCollaborationSession(state, session, t) ==
    [state EXCEPT !.collaborationSession = session, !.lastUpdate = t]

setPermission(state, type, granted, t) ==
    [state EXCEPT !.permissionsGranted[type] = granted, !.lastUpdate = t]

\* reset: set(initialState), the lastUpdate of module load included.
reset(state) == initialState

StoreIdle == store = initialState

\* The values a render of the hooks reads from a store state.
Rendered(state) ==
    [ zoneGraph |-> state.zoneGraph,
      currentEpisode |-> state.currentEpisode,
      user |-> state.user ]

\* The initial useState value of useInference.
InferenceIdle ==
    [isRunning |-> FALSE, candidates |-> <<>>, scores |-> Null, error |-> Null]

Idle == [at |-> "idle"]

HookIdle ==
    /\ view = Rendered(initialState)
    /\ inf = InferenceIdle
    /\ pc = Idle
    /\ calls = {}

Init == GraphInit /\ RankIdle /\ StoreIdle /\ HookIdle

Next ==
    \/ (CreateEmptyGraph /\ UNCHANGED <<rankVars, store, hookVars>>)
    \/ (AddZone /\ UNCHANGED <<rankVars, store, hookVars>>)
    \/ (AddEdge /\ UNCHANGED <<rankVars, store, hookVars>>)
    \/ (RecordTransition /\ UNCHANGED <<rankVars, store, hookVars>>)
    \/ (UsePrior /\ UNCHANGED <<rankVars, store, hookVars>>)
    \/ (Tick /\ UNCHANGED <<rankVars, store, hookVars>>)

Spec == Init /\ [][Next]_vars

----------------------------------------------------------------------------
(* Queries on the caller's graph *)

\* result = op(graph, input): the caller keeps its reference.
Query(op, input, res) ==
    /\ heap' = res.heap
    /\ last' = [op |-> op, arg |-> input, input |-> input, in |-> graph,
                before |-> heap[graph], out |-> graph, at |-> now,
                result |-> res.value]
    /\ UNCHANGED <<graph, prior, now>>

Thresholds == {NoGraph, Rat(1, 2)}

ListZones ==
    \E minStability \in Thresholds :
        /\ ops < MaxOps
        /\ ops' = ops + 1
        /\ Query("listZones", minStability, listZones(heap, graph, minStability))

NeighborIds == {"z_001", "z_002", "z_009"}

GetNeighbors ==
    \E zoneId \in NeighborIds :
        /\ ops < MaxOps
        /\ ops' = ops + 1
        /\ Query("getNeighbors", zoneId, getNeighbors(heap, graph, zoneId))

QueryNext ==
    \/ (AddZone /\ UNCHANGED <<rankVars, store, hookVars>>)
    \/ (AddEdge /\ UNCHANGED <<rankVars, store, hookVars>>)
    \/ (ListZones /\ UNCHANGED <<rankVars, store, hookVars>>)
    \/ (GetNeighbors /\ UNCHANGED <<rankVars, store, hookVars>>)

QuerySpec == Init /\ [][QueryNext]_vars

----------------------------------------------------------------------------
(* A home that grows zone by zone *)

\* The ids the home-size test gives its twenty zones.
HomeZoneIds ==
    << "z_001", "z_002", "z_003", "z_004", "z_005", "z_006", "z_007", "z_008",
       "z_009", "z_0010", "z_011", "z_012", "z_013", "z_014", "z_015", "z_016",
       "z_017", "z_018", "z_019", "z_020" >>

\* The first of these ids the graph does not hold yet.
NextHomeZone ==
    LET missing == {i \in 1..Len(HomeZoneIds) : ~HasZone(heap[graph], HomeZoneIds[i])}
        i == CHOOSE k \in missing : \A l \in missing : k <= l
    IN  MockZone(HomeZoneIds[i], "Kitchen")

GrowHome ==
    /\ Len(heap[graph].zones) < MaxHomeZones
    /\ Apply("addZone", NextHomeZone, NextHomeZone,
             addZone(heap, graph, NextHomeZone, now))
    /\ UNCHANGED ops

EstimateHomeSize ==
    /\ last.op # "estimateHomeSize"
    /\ Query("estimateHomeSize", NoGraph, estimateHomeSize(heap, graph))
    /\ UNCHANGED ops

HomeNext ==
    \/ (GrowHome /\ UNCHANGED <<rankVars, store, hookVars>>)
    \/ (AddZone /\ UNCHANGED <<rankVars, store, hookVars>>)
    \/ (RecordTransition /\ UNCHANGED <<rankVars, store, hookVars>>)
    \/ (CreateEmptyGraph /\ UNCHANGED <<rankVars, store, hookVars>>)
    \/ (UsePrior /\ UNCHANGED <<rankVars, store, hookVars>>)
    \/ (EstimateHomeSize /\ UNCHANGED <<rankVars, store, hookVars>>)

HomeSpec == Init /\ [][HomeNext]_vars

\* The first zones of the home, with edges added and transitions recorded
\* along the way.
GrowSmallHome ==
    /\ Len(heap[graph].zones) < MaxGrowth
    /\ GrowHome

GrowthNext ==
    \/ (GrowSmallHome /\ UNCHANGED <<rankVars, store, hookVars>>)
    \/ (AddEdge /\ UNCHANGED <<rankVars, store, hookVars>>)
    \/ (RecordTransition /\ UNCHANGED <<rankVars, store, hookVars>>)
    \/ (EstimateHomeSize /\ UNCHANGED <<rankVars, store, hookVars>>)

GrowthSpec == Init /\ [][GrowthNext]_vars

----------------------------------------------------------------------------
(* A graph built by recordTransition alone *)

TransitionNext ==
    \/ (RecordTransition /\ UNCHANGED <<rankVars, store, hookVars>>)
    \/ (CreateEmptyGraph /\ UNCHANGED <<rankVars, store, hookVars>>)
    \/ (Tick /\ UNCHANGED <<rankVars, store, hookVars>>)

TransitionSpec == Init /\ [][TransitionNext]_vars

----------------------------------------------------------------------------
(* The store and its callers *)

MockUser ==
    [userId |-> "user_001", name |-> "Test User",
     objectPriors |-> [keys |-> "Front Door", wallet |-> "Kitchen Island"]]
MockQuery == [queryId |-> "q_0", objectType |-> "keys", status |-> "pending"]
MockSession == [sessionId |-> "s_001"]
MockEpisode == [episodeId |-> "ep_001", durationMs |-> 60000]

\* The levels the tests pass, out of bounds on both sides.
Levels == {RInt(150), RInt(50), RInt(-10)}
PermissionTypes == {"motionFitness", "backgroundProcessing"}

\* One store call: the new state and a note of the call.
StoreCall(op, input, state) ==
    /\ ops < MaxOps
    /\ ops' = ops + 1
    /\ store' = state
    /\ last' = [op |-> op, input |-> input]
    /\ UNCHANGED <<heap, graph, prior, now>>

InitializeUser ==
    StoreCall("initializeUser", MockUser, initializeUser(store, MockUser, now))

UpdateBatteryLevel ==
    \E level \in Levels :
        StoreCall("updateBatteryLevel", level, updateBatteryLevel(store, level, now))

\* The interval of useBatteryState: updateBatteryLevel(batteryLevel - 0.1)
\* with the level of the last render.
DrainBattery ==
    LET level == RSub(store.batteryLevel, Rat(1, 10))
    IN  StoreCall("updateBatteryLevel", level, updateBatteryLevel(store, level, now))

SetMotionActive ==
    \E active \in BOOLEAN :
        StoreCall("setMotionActive", active, setMotionActive(store, active, now))

SetCurrentEpisode ==
    \E episode \in {Null, MockEpisode} :
        StoreCall("setCurrentEpisode", episode, setCurrentEpisode(store, episode, now))

SetZoneGraph ==
    \E g \in {Null, createEmptyGraph(now)} :
        StoreCall("setZoneGraph", g, setZoneGraph(store, g, now))

SetRecentQuery ==
    \E query \in {Null, MockQuery} :
        StoreCall("setRecentQuery", query, setRecentQuery(store, query, now))

SetCollaborationSession ==
    \E session \in {Null, MockSession} :
        StoreCall("setCollaborationSession", session,
                  setCollaborationSession(store, session, now))

SetPermission ==
    \E type \in PermissionTypes : \E granted \in BOOLEAN :
        StoreCall("setPermission", <<type, granted>>,
                  setPermission(store, type, granted, now))

Reset == StoreCall("reset", Null, reset(store))

StoreTick == Tick /\ UNCHANGED store

StoreNext ==
    \/ (InitializeUser /\ UNCHANGED <<rankVars, hookVars>>)
    \/ (UpdateBatteryLevel /\ UNCHANGED <<rankVars, hookVars>>)
    \/ (DrainBattery /\ UNCHANGED <<rankVars, hookVars>>)
    \/ (SetMotionActive /\ UNCHANGED <<rankVars, hookVars>>)
    \/ (SetCurrentEpisode /\ UNCHANGED <<rankVars, hookVars>>)
    \/ (SetZoneGraph /\ UNCHANGED <<rankVars, hookVars>>)
    \/ (SetRecentQuery /\ UNCHANGED <<rankVars, hookVars>>)
    \/ (SetCollaborationSession /\ UNCHANGED <<rankVars, hookVars>>)
    \/ (SetPermission /\ UNCHANGED <<rankVars, hookVars>>)
    \/ (Reset /\ UNCHANGED <<rankVars, hookVars>>)
    \/ (StoreTick /\ UNCHANGED <<rankVars, hookVars>>)

StoreSpec == Init /\ [][StoreNext]_vars

----------------------------------------------------------------------------
(* Inputs of the ranking engine *)

\* The instant of the ranking call: one hour after the epoch of the model.
RankNow == 3600000

RankZone(i, label, seen, freq) ==
    [ zoneId |-> <<"z_", i>>, label |-> label, stability |-> Rat(4, 5),
      lastSeenTime |-> seen, frequency |-> freq ]

\* <<label, lastSeenTime, frequency>>: visits 15 s, 10 s and one hour before
\* the call and one stamped 60 s after it, by zones visited five times or
\* never before.
ZoneChoices ==
    { <<"Kitchen", RankNow - 15000, 5>>,
      <<"Bedroom", RankNow - 10000, 5>>,
      <<"Kitchen", RankNow - 10000, 0>>,
      <<"Bedroom", RankNow - 15000, 0>>,
      <<"Bedroom", 0, 5>>,
      <<"Kitchen", RankNow + 60000, 5>> }

\* Zone lists with pairwise distinct zoneIds, as addZone builds them.
RankZoneLists ==
    UNION { { [i \in 1..n |-> RankZone(i, c[i][1], c[i][2], c[i][3])] :
                c \in [1..n -> ZoneChoices] } : n \in 0..MaxRankZones }

RankGraph(zs) ==
    [createEmptyGraph(0) EXCEPT !.zones = zs, !.metadata.zoneCount = Len(zs)]

RankGraphs == {Absent} \cup {RankGraph(zs) : zs \in RankZoneLists}

Severities == {Rat(3, 10), ROne}
DisruptionTimes == {RankNow - 25000, RankNow - 15000}

Disruptions ==
    { [timestamp |-> ts, type |-> "call", severity |-> sv] :
        ts \in DisruptionTimes, sv \in Severities }

DisruptionLists ==
    UNION { [1..n -> Disruptions] : n \in 0..MaxDisruptions }

RankEpisode(ds) ==
    [ endTime |-> RankNow, durationMs |-> 60000,
      events |-> [steps |-> <<>>, transitions |-> <<>>, disruptions |-> ds] ]

\* An episode object that lacks its events.
NoEventsEpisode == [endTime |-> RankNow, durationMs |-> 60000, events |-> Absent]

RankEpisodes == {Absent, NoEventsEpisode} \cup {RankEpisode(ds) : ds \in DisruptionLists}

\* Ten seconds, ten minutes, one hour.
TimeWindows == {10000, 600000, 3600000}

RankQueries ==
    {Absent} \cup
    { [objectType |-> "keys", lastSeen |-> RankNow, timeWindow |-> w] : w \in TimeWindows }

RankPriors ==
    { Absent,
      [k \in {"keys"} |-> "Kitchen"],
      [k \in {"wallet"} |-> "Kitchen"] }

RankInit ==
    /\ GraphInit
    /\ StoreIdle
    /\ HookIdle
    /\ rq \in RankQueries
    /\ rep \in RankEpisodes
    /\ rg \in RankGraphs
    /\ rpriors \in RankPriors
    /\ rres = Unset

\* One call of rankCandidateZones at the instant RankNow.
Rank ==
    /\ rres = Unset
    /\ rres' = rankCandidateZones(rq, rep, rg, rpriors, RankNow)
    /\ UNCHANGED <<rq, rep, rg, rpriors>>
    /\ UNCHANGED <<graphVars, store, hookVars>>

RankNext == Rank

RankSpec == RankInit /\ [][RankNext]_vars

\* Rankings over well-formed inputs: a query with the one-hour window, an
\* episode with its events, a graph, and priors that are absent or name the
\* Kitchen for the queried object.
CandidateInit ==
    /\ GraphInit
    /\ StoreIdle
    /\ HookIdle
    /\ rq = [objectType |-> "keys", lastSeen |-> RankNow, timeWindow |-> 3600000]
    /\ rep \in {RankEpisode(ds) : ds \in DisruptionLists}
    /\ rg \in {RankGraph(zs) : zs \in RankZoneLists}
    /\ rpriors \in {Absent, [k \in {"keys"} |-> "Kitchen"]}
    /\ rres = Unset

CandidateSpec == CandidateInit /\ [][RankNext]_vars

----------------------------------------------------------------------------
(* The hooks: useGraph and useInference *)

\* A render of the component: the hooks read the store again and their
\* callbacks are rebuilt over what they read.
Render ==
    /\ pc = Idle
    /\ view # Rendered(store)
    /\ view' = Rendered(store)
    /\ UNCHANGED <<store, inf, pc, calls>>
    /\ UNCHANGED graphVars

\* The value a graph operation returns for a graph value.
ValueOf(res) == res.heap[res.ref]
Held(g) == <<g, NoGraph>>

\* One call of a useGraph callback built by the last render: it returns at
\* once when that render saw no graph, and otherwise stores `updated`.
HookCall(op, update, updated) ==
    /\ pc = Idle
    /\ ops < MaxOps
    /\ ops' = ops + 1
    /\ last' = [op |-> op, input |-> update]
    /\ IF view.zoneGraph = Null
       THEN UNCHANGED store
       ELSE store' = setZoneGraph(store, updated, now)
    /\ calls' = IF view.zoneGraph # Null /\ store.zoneGraph # Null
                THEN calls \cup {update}
                ELSE calls
    /\ UNCHANGED <<view, inf, pc>>
    /\ UNCHANGED <<heap, graph, prior, now>>

InitializeGraph ==
    /\ pc = Idle
    /\ ops < MaxOps
    /\ ops' = ops + 1
    /\ last' = [op |-> "initializeGraph", input |-> Null]
    /\ IF view.zoneGraph = Null
       THEN store' = setZoneGraph(store, createEmptyGraph(now), now)
       ELSE UNCHANGED store
    /\ UNCHANGED <<view, inf, pc, calls>>
    /\ UNCHANGED <<heap, graph, prior, now>>

AddNewZone ==
    \E zone \in ZoneInputs :
        HookCall("addNewZone", [zone |-> zone.zoneId],
                 IF view.zoneGraph = Null THEN Null
                 ELSE ValueOf(addZone(Held(view.zoneGraph), 1, zone, now)))

AddNewEdge ==
    \E edge \in EdgeInputs :
        HookCall("addNewEdge", [from |-> edge.fromZoneId, to |-> edge.toZoneId],
                 IF view.zoneGraph = Null THEN Null
                 ELSE ValueOf(addEdge(Held(view.zoneGraph), 1, edge, now)))

RecordZoneTransition ==
    \E tr \in TransitionInputs :
        HookCall("recordZoneTransition",
                 [from |-> transitionEdge(tr).fromZoneId, to |-> tr.toZoneId],
                 IF view.zoneGraph = Null THEN Null
                 ELSE ValueOf(recordTransition(Held(view.zoneGraph), 1, tr, now)))

GraphHookNext ==
    \/ (Render /\ UNCHANGED rankVars)
    \/ (InitializeGraph /\ UNCHANGED rankVars)
    \/ (AddNewZone /\ UNCHANGED rankVars)
    \/ (AddNewEdge /\ UNCHANGED rankVars)
    \/ (RecordZoneTransition /\ UNCHANGED rankVars)

GraphHookSpec == Init /\ [][GraphHookNext]_vars

\* What the store may hold when the inference screen is opened.
HookEpisodes == {Null, NoEventsEpisode} \cup {RankEpisode(<<d>>) : d \in Disruptions}
HookGraphs ==
    {Null, RankGraph(<<RankZone(1, "Front Door", RankNow - 15000, 5)>>)}
HookUsers == {Null, MockUser}
HookQuery == [objectType |-> "keys", lastSeen |-> RankNow, timeWindow |-> 3600000]

InferenceInit ==
    /\ GraphInit
    /\ RankIdle
    /\ \E e \in HookEpisodes : \E g \in HookGraphs : \E u \in HookUsers :
           store = [initialState EXCEPT !.currentEpisode = e, !.zoneGraph = g, !.user = u]
    /\ view = Rendered(store)
    /\ inf = InferenceIdle
    /\ pc = Idle
    /\ calls = {}

StoreEpisode ==
    /\ pc = Idle
    /\ \E e \in HookEpisodes :
           StoreCall("setCurrentEpisode", e, setCurrentEpisode(store, e, now))
    /\ UNCHANGED hookVars

StoreGraph ==
    /\ pc = Idle
    /\ \E g \in HookGraphs :
           StoreCall("setZoneGraph", g, setZoneGraph(store, g, now))
    /\ UNCHANGED hookVars

MissingContext ==
    [isRunning |-> FALSE, candidates |-> <<>>, scores |-> Null,
     error |-> [message |-> "Episode or graph not loaded"]]

Loaded(v) == v.currentEpisode # Null /\ v.zoneGraph # Null

\* inferLossLocation up to the try block: the guard on the values of the
\* last render, then the functional setState.
InferStart ==
    /\ pc = Idle
    /\ ops < MaxOps
    /\ ops' = ops + 1
    /\ last' = [op |-> "inferLossLocation", input |-> HookQuery,
                loaded |-> Loaded(store), before |-> inf]
    /\ IF ~Loaded(view)
       THEN /\ inf' = MissingContext
            /\ pc' = Idle
       ELSE /\ inf' = [inf EXCEPT !.isRunning = TRUE, !.error = Null]
            /\ pc' = [at |-> "ranking", query |-> HookQuery]
    /\ UNCHANGED <<view, calls, store>>
    /\ UNCHANGED <<heap, graph, prior, now>>

\* The state the catch block sets.
catchState_keepResults(message) ==
    [inf EXCEPT !.isRunning = FALSE, !.error = [message |-> message]]
catchState(message) ==
    [isRunning |-> FALSE, candidates |-> <<>>, scores |-> Null,
     error |-> [message |-> message]]

\* The try block and its catch, evaluated at RankNow.
InferFinish ==
    /\ pc # Idle
    /\ LET priors == IF view.user = Null THEN Absent ELSE view.user.objectPriors
           ranked == rankCandidateZones(pc.query, view.currentEpisode, view.zoneGraph,
                                        priors, RankNow)
           scored == computeBehavioralScores(view.currentEpisode, RankNow)
       IN  inf' = IF ranked.raised \/ scored.raised
                  THEN catchState("TypeError")
                  ELSE [isRunning |-> FALSE, candidates |-> ranked.value,
                        scores |-> scored.value, error |-> Null]
    /\ pc' = Idle
    /\ UNCHANGED <<view, calls, store>>
    /\ UNCHANGED graphVars

InferenceNext ==
    \/ (Render /\ UNCHANGED rankVars)
    \/ (StoreEpisode /\ UNCHANGED rankVars)
    \/ (StoreGraph /\ UNCHANGED rankVars)
    \/ (InferStart /\ UNCHANGED rankVars)
    \/ (InferFinish /\ UNCHANGED rankVars)

InferenceSpec == InferenceInit /\ [][InferenceNext]_vars

----------------------------------------------------------------------------
(* Scoring inputs: episodes handed to computeBehavioralScores, evaluated at *)
(* RankNow.  Severities include values outside [0,1], the episode may end   *)
(* after the evaluation time and may hold more than five transitions.       *)

ScoreSeverities == {Rat(-1, 2), Rat(3, 10), ROne, Rat(3, 2)}
ScoreDisruptions ==
    {[timestamp |-> RankNow - 10000, type |-> "PHONE_CALL", severity |-> s] :
        s \in ScoreSeverities}
ScoreDisruptionLists ==
    UNION {[1..n -> ScoreDisruptions] : n \in 0..MaxDisruptions}

EndTimes == {RankNow - 60000, RankNow, RankNow + 60000}
Durations == {0, 60000}
TransitionCounts == {0, 3, 7}

ScoreTransition(i) ==
    [fromZoneId |-> "z_001", toZoneId |-> "z_002", timestamp |-> RankNow - 60000,
     steps |-> 10 + i, turnAngle |-> 90, duration |-> 5000]

ScoreEpisode(ds, end, dur, n) ==
    [endTime |-> end, durationMs |-> dur,
     events |-> [steps |-> <<>>,
                 transitions |-> [i \in 1..n |-> ScoreTransition(i)],
                 disruptions |-> ds]]

ScoreEpisodes ==
    {Absent, NoEventsEpisode} \cup
    {ScoreEpisode(ds, end, dur, n) :
        ds \in ScoreDisruptionLists, end \in EndTimes,
        dur \in Durations, n \in TransitionCounts}

ScoreInit ==
    /\ GraphInit
    /\ StoreIdle
    /\ HookIdle
    /\ rq = Unset
    /\ rg = Unset
    /\ rpriors = Unset
    /\ rep \in ScoreEpisodes
    /\ rres = Unset

\* scores = computeBehavioralScores(episode)
Score ==
    /\ rres = Unset
    /\ rres' = computeBehavioralScores(rep, RankNow)
    /\ UNCHANGED <<rq, rep, rg, rpriors>>
    /\ UNCHANGED <<graphVars, store, hookVars>>

ScoreNext == Score

ScoreSpec == ScoreInit /\ [][ScoreNext]_vars

----------------------------------------------------------------------------
(* Properties of the zone graph service *)

LiveRefs == {r \in Refs : heap[r] # NoGraph}
EdgeOps == {"addEdge", "recordTransition"}
IsCall == last.op # "none"
IsEdgeCall == last.op \in EdgeOps
Before == last.before
After == heap[last.out]

HasPair(edges, e) == \E i \in 1..Len(edges) : SamePair(edges[i], e)
Reverse(e) == [fromZoneId |-> e.toZoneId, toZoneId |-> e.fromZoneId]

\* C1: in every graph built by addZone, addEdge and recordTransition from
\* createEmptyGraph(), metadata.zoneCount equals the number of zones.
C1_ZoneCountMatches ==
    \A r \in LiveRefs : heap[r].metadata.zoneCount = Len(heap[r].zones)

C1_Witness ==
    /\ last.op = "addZone"
    /\ Len(After.zones) = 2
    /\ After.metadata.zoneCount = 2
    /\ Len(After.edges) >= 1

\* C2: addZone with a zoneId already present returns its argument itself,
\* with zones, edges, zoneCount and lastUpdatedTime as they were, whatever the
\* other fields of the zone; zoneIds stay pairwise distinct in every graph.
C2_AddZoneIdempotent ==
    /\ (last.op = "addZone" /\ HasZone(Before, last.arg.zoneId)) =>
          /\ last.out = last.in
          /\ After = Before
    /\ \A r \in LiveRefs :
          \A i, j \in 1..Len(heap[r].zones) :
              heap[r].zones[i].zoneId = heap[r].zones[j].zoneId => i = j

C2_Witness ==
    /\ last.op = "addZone"
    /\ now > Before.lastUpdatedTime
    /\ \E i \in 1..Len(Before.zones) :
          /\ Before.zones[i].zoneId = last.arg.zoneId
          /\ Before.zones[i].label # last.arg.label

\* C3: a graph holds at most one edge per ordered (fromZoneId, toZoneId); an
\* edge whose ordered pair is not yet stored is appended and leaves every
\* stored edge, the reverse edge included, as it was.
C3_OneEdgePerOrderedPair ==
    /\ \A r \in LiveRefs :
          \A i, j \in 1..Len(heap[r].edges) :
              SamePair(heap[r].edges[i], heap[r].edges[j]) => i = j
    /\ (IsEdgeCall /\ ~HasPair(Before.edges, last.arg)) =>
          /\ Len(After.edges) = Len(Before.edges) + 1
          /\ \A i \in 1..Len(Before.edges) : After.edges[i] = Before.edges[i]
          /\ After.edges[Len(After.edges)] = last.arg

C3_Witness ==
    /\ IsEdgeCall
    /\ HasPair(Before.edges, Reverse(last.arg))
    /\ ~HasPair(Before.edges, last.arg)
    /\ HasPair(After.edges, last.arg)
    /\ HasPair(After.edges, Reverse(last.arg))

IsRoundedMean(m, a, b) == Abs(2 * m - (a + b)) <= 1

\* C4: when addEdge finds a stored edge with the ordered pair of its argument,
\* the signature of the resulting edge is the mean of the stored and the new
\* values (to the nearest integer for medianSteps and
\* medianTransitionDurationMs, exact for medianTurnAngle) and every other
\* edge is carried over unchanged.
C4_MergeIsMean ==
    IsEdgeCall =>
        \A i \in 1..Len(Before.edges) :
            IF SamePair(Before.edges[i], last.arg)
            THEN LET x == Before.edges[i].kinematicSignature
                     e == last.arg.kinematicSignature
                     y == After.edges[i].kinematicSignature
                 IN  /\ Len(After.edges) = Len(Before.edges)
                     /\ SamePair(After.edges[i], last.arg)
                     /\ IsRoundedMean(y.medianSteps, x.medianSteps, e.medianSteps)
                     /\ IsRoundedMean(y.medianTransitionDurationMs,
                                      x.medianTransitionDurationMs,
                                      e.medianTransitionDurationMs)
                     /\ RMul(y.medianTurnAngle, RInt(2))
                            = RAdd(x.medianTurnAngle, e.medianTurnAngle)
            ELSE After.edges[i] = Before.edges[i]

C4_Witness ==
    /\ IsEdgeCall
    /\ Len(Before.edges) >= 2
    /\ \E i \in 1..Len(Before.edges) :
          /\ SamePair(Before.edges[i], last.arg)
          /\ Before.edges[i].kinematicSignature # last.arg.kinematicSignature
          /\ After.edges[i].kinematicSignature.medianTurnAngle.d = 2

InUnit(w) == RLeq(RZero, w) /\ RLeq(w, ROne)

\* C5: a merge sets weight = min(1.0, oldWeight + 0.1 * newWeight); over
\* addEdge and recordTransition calls with weights in [0,1] the stored weight
\* of an ordered pair never decreases and never exceeds 1.0.
C5_WeightSaturates ==
    /\ \A r \in LiveRefs :
          \A i \in 1..Len(heap[r].edges) : InUnit(heap[r].edges[i].weight)
    /\ IsEdgeCall =>
          \A i \in 1..Len(Before.edges) :
              /\ RLeq(Before.edges[i].weight, After.edges[i].weight)
              /\ SamePair(Before.edges[i], last.arg) =>
                    LET sum == RAdd(Before.edges[i].weight,
                                    RDivInt(last.arg.weight, 10))
                    IN  After.edges[i].weight = IF RLess(ROne, sum) THEN ROne ELSE sum

C5_Witness ==
    /\ IsEdgeCall
    /\ \E i \in 1..Len(Before.edges) :
          /\ SamePair(Before.edges[i], last.arg)
          /\ RLess(last.arg.weight, Before.edges[i].weight)
          /\ RLess(Before.edges[i].weight, After.edges[i].weight)
          /\ RLess(After.edges[i].weight, ROne)

Changes ==
    \/ IsEdgeCall
    \/ (last.op = "addZone" /\ ~HasZone(Before, last.arg.zoneId))

\* C6: addZone, addEdge and recordTransition leave the graph they are given
\* as it was before the call, and return a different graph object (a fresh
\* instance, `not.toBe` the argument) whenever a zone or an edge was added or
\* merged.
C6_InputUntouched ==
    IsCall =>
        /\ heap[last.in] = Before
        /\ Changes => last.out # last.in

C6_Witness ==
    /\ last.op = "addZone"
    /\ Len(Before.zones) = 1
    /\ Len(heap[last.in].zones) = 1
    /\ Len(After.zones) = 2
    /\ prior = last.in
    /\ graph = last.out

----------------------------------------------------------------------------
(* Properties of the ranking engine *)

Ranked == rres # Unset
Candidates == rres.value
GraphHasZones == IF rg = Absent THEN FALSE ELSE Len(rg.zones) > 0
HasPrior == IF rpriors = Absent \/ rq = Absent THEN FALSE ELSE rq.objectType \in DOMAIN rpriors

\* The zone of the input graph a candidate was computed from.
ZoneOf(c) == rg.zones[c.zoneId[2]]

\* C7: for inputs that respect the data model (severities in [0,1],
\* frequencies >= 0) every returned candidate has probability and confidence
\* in [0,1], with or without objectPriors.
C7_ScoresInUnitInterval ==
    (Ranked /\ ~rres.raised) =>
        \A i \in 1..Len(Candidates) :
            /\ InUnit(Candidates[i].probability)
            /\ InUnit(Candidates[i].confidence)

C7_Witness ==
    /\ Ranked
    /\ ~rres.raised
    /\ HasPrior
    /\ \E i \in 1..Len(Candidates) :
          /\ Candidates[i].zoneName = rpriors[rq.objectType]
          /\ Candidates[i].probability = ROne
          /\ Candidates[i].confidence = ROne
          /\ RLess(scoreZone(ZoneOf(Candidates[i]), rep, RankNow).probability, ROne)

\* C8: the returned sequence is sorted non-increasing by probability, the
\* probabilities being the final ones, after the object-prior boost.
C8_SortedByFinalProbability ==
    (Ranked /\ ~rres.raised) =>
        \A i \in 1..(Len(Candidates) - 1) :
            RLeq(Candidates[i + 1].probability, Candidates[i].probability)

C8_Witness ==
    /\ Ranked
    /\ ~rres.raised
    /\ HasPrior
    /\ Len(Candidates) >= 2
    /\ Candidates[1].zoneName = rpriors[rq.objectType]
    /\ Candidates[2].zoneName # rpriors[rq.objectType]
    /\ RLess(scoreZone(ZoneOf(Candidates[1]), rep, RankNow).probability,
             Candidates[2].probability)
    /\ RLess(Candidates[2].probability, Candidates[1].probability)

\* Indices of the zones visited inside the queried window.
InWindow == {i \in 1..Len(rg.zones) : rg.zones[i].lastSeenTime >= rq.lastSeen - rq.timeWindow}

ExactlyTheZonesInWindow ==
    /\ ~rres.raised
    /\ Len(Candidates) = Cardinality(InWindow)
    /\ \A i \in InWindow :
          \E j \in 1..Len(Candidates) : Candidates[j].zoneId = rg.zones[i].zoneId
    /\ \A j \in 1..Len(Candidates) :
          \E i \in InWindow :
              /\ Candidates[j].zoneId = rg.zones[i].zoneId
              /\ Candidates[j].zoneName = rg.zones[i].label

\* C9 as stated: for a non-empty graph the candidates are exactly the zones
\* with lastSeenTime >= query.lastSeen - query.timeWindow, one each.
C9_Original ==
    (Ranked /\ GraphHasZones /\ rq # Absent) => ExactlyTheZonesInWindow

HasEvents == IF rep = Absent THEN FALSE ELSE rep.events # Absent

\* C9 (amended): for a non-empty graph and a present episode the candidates
\* are exactly the zones with lastSeenTime >= query.lastSeen -
\* query.timeWindow, one candidate for each such zone and none for any other.
C9_ZonesInWindowWithEpisode ==
    (Ranked /\ GraphHasZones /\ rq # Absent /\ HasEvents) => ExactlyTheZonesInWindow

C9_Witness ==
    /\ Ranked
    /\ GraphHasZones
    /\ rq # Absent
    /\ HasEvents
    /\ rq.timeWindow = 600000
    /\ Len(rg.zones) = 2
    /\ rg.zones[1].lastSeenTime = 0
    /\ rg.zones[2].lastSeenTime = RankNow - 10000
    /\ Len(Candidates) = 1
    /\ Candidates[1].zoneId = rg.zones[2].zoneId

\* C10: the ranking returns an empty sequence, and does not raise, when the
\* graph has no zones or when the episode or the graph is absent.
C10_EmptyOnMissingInput ==
    (Ranked /\ (rep = Absent \/ ~GraphHasZones)) => rres = Returned(<<>>)

C10_Witness ==
    /\ Ranked
    /\ rep = Absent
    /\ GraphHasZones
    /\ rq # Absent
    /\ InWindow # {}
    /\ rres = Returned(<<>>)

----------------------------------------------------------------------------
(* Properties of the behavioural scores *)

Scored == rres # Unset /\ rq = Unset
Scores == rres.value
InUnitScore(x) == RLeq(RZero, x) /\ RLeq(x, ROne)

\* C11: the ranking pipeline never raises, whichever of the query, the
\* episode, the episode's events, the graph and the objectPriors are present
\* or absent: rankCandidateZones and computeBehavioralScores always return.
C11_NeverRaises == (rres # Unset) => ~rres.raised

\* C12: for an episode with an empty disruption list the scores have
\* csi = 1 and ads = 0, whatever the duration, the end time and the
\* transitions of the episode.
C12_NoDisruptionScores ==
    (Scored /\ HasEvents /\ ~rres.raised) =>
        (rep.events.disruptions = <<>> =>
            /\ Scores.csi = ROne
            /\ Scores.ads = RZero)

C12_Witness ==
    /\ Scored
    /\ HasEvents
    /\ rep.events.disruptions = <<>>
    /\ rep.endTime > RankNow
    /\ rep.durationMs = 0
    /\ Len(rep.events.transitions) > 5
    /\ Scores.csi = ROne
    /\ Scores.ads = RZero

\* C13: for every episode the three scores csi, bls and ads lie in [0,1],
\* also when a severity lies outside [0,1], when the episode ends after the
\* evaluation time and when it holds more than five transitions.
C13_ScoresClamped ==
    (Scored /\ HasEvents) =>
        /\ ~rres.raised
        /\ InUnitScore(Scores.csi)
        /\ InUnitScore(Scores.bls)
        /\ InUnitScore(Scores.ads)

C13_Witness ==
    /\ Scored
    /\ HasEvents
    /\ Len(rep.events.disruptions) = 2
    /\ rep.events.disruptions[1].severity = Rat(3, 2)
    /\ rep.events.disruptions[2].severity = Rat(-1, 2)
    /\ rep.endTime > RankNow
    /\ Len(rep.events.transitions) > 5
    /\ Scores.ads = ROne
    /\ Scores.bls = ROne
    /\ Scores.csi = Rat(1, 2)

----------------------------------------------------------------------------
(* Properties of the graph queries *)

IsQuery(op) == last.op = op
Result == last.result

StableZones(zs, t) == {i \in 1..Len(zs) : RLeq(t, zs[i].stability)}

\* C14: listZones(g, t) returns exactly the zones of g with stability >= t
\* (t = 0 when omitted), each once, ordered by frequency non-increasing; it
\* leaves g.zones in its original order, and a second call with the same
\* graph and threshold returns the same ordered output.
C14_ListZones ==
    IsQuery("listZones") =>
        LET t == IF last.input = NoGraph THEN RZero ELSE last.input
            zs == Before.zones
        IN  /\ \A i \in 1..Len(Result) :
                   \E j \in StableZones(zs, t) : Result[i] = zs[j]
            /\ \A j \in StableZones(zs, t) :
                   \E i \in 1..Len(Result) : Result[i] = zs[j]
            /\ Len(Result) = Cardinality(StableZones(zs, t))
            /\ \A i \in 1..Len(Result) : \A k \in 1..Len(Result) :
                   i < k => Result[i].frequency >= Result[k].frequency
            /\ heap[graph].zones = zs
            /\ heap[graph] = Before
            /\ listZones(heap, graph, last.input).value = Result

C14_Witness ==
    /\ IsQuery("listZones")
    /\ last.input = Rat(1, 2)
    /\ Len(Before.zones) = 2
    /\ Len(Result) = 2
    /\ Result[1] = Before.zones[2]
    /\ Result[2] = Before.zones[1]
    /\ Result[1].frequency > Result[2].frequency
    /\ heap[graph].zones = Before.zones

OutgoingOf(es, id) == {j \in 1..Len(es) : es[j].fromZoneId = id}
WeightTo(es, id, to) ==
    es[CHOOSE j \in OutgoingOf(es, id) : es[j].toZoneId = to].weight

\* C15: getNeighbors(g, id) returns the toZoneId of every edge of g whose
\* fromZoneId is id and of no other edge, ordered by edge weight
\* non-increasing, each neighbour at most once; it is empty when id has no
\* outgoing edge, whether or not id is a zone of g.
C15_GetNeighbors ==
    IsQuery("getNeighbors") =>
        LET id == last.input
            es == Before.edges
        IN  /\ \A i \in 1..Len(Result) :
                   \E j \in OutgoingOf(es, id) : Result[i] = es[j].toZoneId
            /\ \A j \in OutgoingOf(es, id) :
                   \E i \in 1..Len(Result) : Result[i] = es[j].toZoneId
            /\ \A i \in 1..Len(Result) : \A k \in 1..Len(Result) :
                   i # k => Result[i] # Result[k]
            /\ \A i \in 1..Len(Result) : \A k \in 1..Len(Result) :
                   i < k => RLeq(WeightTo(es, id, Result[k]), WeightTo(es, id, Result[i]))
            /\ (OutgoingOf(es, id) = {} => Result = <<>>)
            /\ heap[graph] = Before

C15_Witness ==
    /\ IsQuery("getNeighbors")
    /\ last.input = "z_001"
    /\ Len(Before.edges) = 2
    /\ Result = <<Before.edges[2].toZoneId, Before.edges[1].toZoneId>>
    /\ RLess(Before.edges[1].weight, Before.edges[2].weight)

----------------------------------------------------------------------------
(* Properties of recordTransition and of edges between unknown zones *)

PairCount(edges, e) == Cardinality({i \in 1..Len(edges) : SamePair(edges[i], e)})
IsZoneOf(g, id) == \E i \in 1..Len(g.zones) : g.zones[i].zoneId = id

\* C17: recordTransition(g, t) yields the graph addEdge(g, e) yields, where e
\* runs from t.fromZoneId (from "entry" when t.fromZoneId is absent) to
\* t.toZoneId and carries t's steps, turn angle and duration; a transition
\* over an ordered pair the graph already holds, a repeated session start
\* included, merges into the one edge of that pair.
C17_RecordTransitionIsAddEdge ==
    IsQuery("recordTransition") =>
        LET tr == last.input
            e  == [ fromZoneId |-> IF tr.fromZoneId = NoZone THEN "entry" ELSE tr.fromZoneId,
                    toZoneId   |-> tr.toZoneId,
                    kinematicSignature |->
                        [ medianSteps |-> tr.kinematicSignature.stepsTaken,
                          medianTurnAngle |-> tr.kinematicSignature.turnAngleDegrees,
                          medianTransitionDurationMs |->
                              tr.kinematicSignature.transitionDurationMs ],
                    weight |-> ROne,
                    lastUsedTime |-> tr.timestamp ]
            viaAddEdge == addEdge(<<Before, NoGraph>>, 1, e, last.at)
        IN  /\ After = viaAddEdge.heap[viaAddEdge.ref]
            /\ PairCount(After.edges, e) = 1
            /\ (PairCount(Before.edges, e) = 1 => Len(After.edges) = Len(Before.edges))

C17_Witness ==
    /\ IsQuery("recordTransition")
    /\ last.input.fromZoneId = NoZone
    /\ Len(Before.edges) = 1
    /\ Before.edges[1].fromZoneId = "entry"
    /\ Before.edges[1].toZoneId = "z_002"
    /\ Len(After.edges) = 1
    /\ After.edges[1].fromZoneId = "entry"
    /\ After.edges[1].kinematicSignature # Before.edges[1].kinematicSignature

\* C18: addEdge and recordTransition accept an edge whose endpoints are not
\* zone ids of the graph: the edge is stored, or merged into the edge of its
\* pair, and zones and zoneCount are left as they were.
C18_UnknownEndpointsAccepted ==
    (IsEdgeCall /\ (~IsZoneOf(Before, last.arg.fromZoneId)
                        \/ ~IsZoneOf(Before, last.arg.toZoneId))) =>
        /\ PairCount(After.edges, last.arg) = 1
        /\ Len(After.edges) = Len(Before.edges) + (1 - PairCount(Before.edges, last.arg))
        /\ After.zones = Before.zones
        /\ After.metadata.zoneCount = Before.metadata.zoneCount

C18_Witness ==
    /\ IsQuery("addEdge")
    /\ Len(Before.zones) = 1
    /\ IsZoneOf(Before, last.arg.fromZoneId)
    /\ ~IsZoneOf(Before, last.arg.toZoneId)
    /\ PairCount(Before.edges, last.arg) = 0
    /\ Len(After.edges) = Len(Before.edges) + 1
    /\ After.zones = Before.zones
    /\ After.metadata.zoneCount = 1

----------------------------------------------------------------------------
(* Properties of the object-prior boost *)

REq(x, y) == RLeq(x, y) /\ RLeq(y, x)
Unboosted(c) == scoreZone(ZoneOf(c), rep, RankNow)
Matches(c) == HasPrior /\ c.zoneName = priorFor(rpriors, rq)

\* C19: a candidate whose label equals objectPriors[query.objectType] has
\* probability min(1, 1.2 x unboosted) and confidence min(1, 1.1 x unboosted);
\* a candidate whose label does not match, and every candidate when
\* objectPriors is absent or has no entry for the object type, keeps its
\* unboosted probability and confidence.
C19_PriorBoost ==
    (Ranked /\ ~rres.raised) =>
        \A i \in 1..Len(Candidates) :
            LET c == Candidates[i]
                u == Unboosted(c)
            IN  IF Matches(c)
                THEN /\ REq(c.probability, RMin(ROne, RMul(Rat(6, 5), u.probability)))
                     /\ REq(c.confidence, RMin(ROne, RMul(Rat(11, 10), u.confidence)))
                ELSE /\ REq(c.probability, u.probability)
                     /\ REq(c.confidence, u.confidence)

C19_Witness ==
    /\ Ranked
    /\ ~rres.raised
    /\ Len(Candidates) = 2
    /\ Matches(Candidates[1])
    /\ ~Matches(Candidates[2])
    /\ RLess(Unboosted(Candidates[1]).probability, Candidates[1].probability)
    /\ RLess(Candidates[1].probability, ROne)
    /\ RLess(Unboosted(Candidates[1]).confidence, Candidates[1].confidence)
    /\ REq(Candidates[2].probability, Unboosted(Candidates[2]).probability)

----------------------------------------------------------------------------
(* Properties of the store *)

\* C20: after any sequence of store operations (updateBatteryLevel with any
\* level, the other setters, reset) batteryLevel lies in [0,100], and
\* updateBatteryLevel(x) stores min(100, max(0, x)).
C20_BatteryLevelInRange ==
    /\ RLeq(RZero, store.batteryLevel)
    /\ RLeq(store.batteryLevel, RInt(100))
    /\ (IsQuery("updateBatteryLevel") =>
            REq(store.batteryLevel, RMin(RInt(100), RMax(RZero, last.input))))

C20_Witness ==
    /\ IsQuery("updateBatteryLevel")
    /\ last.input = RInt(-10)
    /\ store.batteryLevel = RZero
    /\ store.user # Null
    /\ store.motionActive

----------------------------------------------------------------------------
(* Properties of the candidates' search radius and scores *)

Tier(confidence) ==
    IF RLess(Rat(7, 10), confidence) THEN "tight"
    ELSE IF RLess(confidence, Rat(2, 5)) THEN "wide"
    ELSE "moderate"

\* C21: every returned candidate has searchRadius "tight" when its
\* confidence is above 0.7, "wide" when it is below 0.4 and "moderate"
\* otherwise, candidates whose confidence the object prior raised included.
C21_RadiusMatchesConfidence ==
    (Ranked /\ ~rres.raised) =>
        \A i \in 1..Len(Candidates) :
            Candidates[i].searchRadius = Tier(Candidates[i].confidence)

\* The episode's events inside the disruption window of zone z, in the
\* episode's order.
Win(z) ==
    SelectSeq(rep.events.disruptions,
              LAMBDA d : z.lastSeenTime - 10000 <= d.timestamp
                         /\ d.timestamp <= z.lastSeenTime)
ScoresOf(c) == zoneScores(ZoneOf(c), rep, RankNow)

\* C22: a candidate's disruption window is the episode's events stamped from
\* lastSeenTime - 10000 to lastSeenTime, both bounds included; ads and
\* reasoning.disruptionEvent come from the first such event in the episode's
\* order; with no event in the window ads is 0 and disruptionEvent is absent.
C22_FirstEventOfWindow ==
    (Ranked /\ ~rres.raised) =>
        \A i \in 1..Len(Candidates) :
            LET c == Candidates[i]
                w == Win(ZoneOf(c))
            IN  IF w = <<>>
                THEN /\ c.reasoning.disruptionEvent = NoEvent
                     /\ ScoresOf(c).ads = RZero
                ELSE /\ c.reasoning.disruptionEvent = w[1]
                     /\ ScoresOf(c).ads = w[1].severity

C22_Witness ==
    /\ Ranked
    /\ ~rres.raised
    /\ Len(Candidates) >= 1
    /\ Len(rep.events.disruptions) = 2
    /\ rep.events.disruptions[1].timestamp = ZoneOf(Candidates[1]).lastSeenTime
    /\ rep.events.disruptions[2].timestamp = ZoneOf(Candidates[1]).lastSeenTime - 10000
    /\ RLess(rep.events.disruptions[1].severity, rep.events.disruptions[2].severity)
    /\ Candidates[1].reasoning.disruptionEvent = rep.events.disruptions[1]
    /\ ScoresOf(Candidates[1]).ads = Rat(3, 10)

Weighted(ads, bls, csi) ==
    RAdd(RAdd(RMul(Rat(2, 5), ads), RMul(Rat(7, 20), bls)),
         RMul(Rat(1, 4), RSub(ROne, csi)))

MeanSeverity(w) == RDivInt(SumSeverity(w), Len(w))

\* C23: before any prior boost a candidate's probability is
\* 0.4*ads + 0.35*bls + 0.25*(1 - csi), with csi = max(0, 1 - mean severity)
\* over the window (1 when the window is empty), bls computed from the time
\* since zone.lastSeenTime and zone.frequency, and ads the first window
\* event's severity or 0.
C23_WeightedProbability ==
    (Ranked /\ ~rres.raised) =>
        \A i \in 1..Len(Candidates) :
            LET c == Candidates[i]
                z == ZoneOf(c)
                w == Win(z)
                sc == ScoresOf(c)
                csi == IF w = <<>> THEN ROne ELSE RMax(RZero, RSub(ROne, MeanSeverity(w)))
                bls == computeBLS(RankNow - z.lastSeenTime, z.frequency)
                ads == IF w = <<>> THEN RZero ELSE w[1].severity
            IN  /\ REq(sc.csi, csi)
                /\ REq(sc.bls, bls)
                /\ REq(sc.ads, ads)
                /\ REq(Unboosted(c).probability, Weighted(ads, bls, csi))
                /\ (~Matches(c) => REq(c.probability, Weighted(ads, bls, csi)))

C23_Witness ==
    /\ Ranked
    /\ ~rres.raised
    /\ Len(Candidates) >= 1
    /\ ~Matches(Candidates[1])
    /\ Len(Win(ZoneOf(Candidates[1]))) = 2
    /\ ScoresOf(Candidates[1]).ads = Rat(3, 10)
    /\ ScoresOf(Candidates[1]).csi = Rat(7, 20)
    /\ RLess(RZero, ScoresOf(Candidates[1]).bls)
    /\ REq(Candidates[1].probability,
           Weighted(Rat(3, 10), ScoresOf(Candidates[1]).bls, Rat(7, 20)))

SignalCount(sc) ==
    (IF RLess(sc.csi, Rat(1, 2)) THEN 1 ELSE 0)
    + (IF RLess(Rat(1, 2), sc.bls) THEN 1 ELSE 0)
    + (IF RLess(Rat(3, 10), sc.ads) THEN 1 ELSE 0)

\* C24: before any prior boost a candidate's confidence is k/3, k being the
\* number of the conditions csi < 0.5, bls > 0.5 and ads > 0.3 that hold
\* (strictly: a score on its threshold does not count); unboosted
\* confidence is one of 0, 1/3, 2/3, 1.
C24_ConfidenceIsSignalThirds ==
    (Ranked /\ ~rres.raised) =>
        \A i \in 1..Len(Candidates) :
            LET c == Candidates[i]
                k == SignalCount(ScoresOf(c))
                u == Unboosted(c)
            IN  /\ REq(u.confidence, Rat(k, 3))
                /\ u.confidence \in {RZero, Rat(1, 3), Rat(2, 3), ROne}
                /\ (~Matches(c) => REq(c.confidence, Rat(k, 3)))

C24_Witness ==
    /\ Ranked
    /\ ~rres.raised
    /\ Len(Candidates) >= 1
    /\ ~Matches(Candidates[1])
    /\ ScoresOf(Candidates[1]).ads = Rat(3, 10)
    /\ RLess(Rat(1, 2), ScoresOf(Candidates[1]).bls)
    /\ RLess(Rat(1, 2), ScoresOf(Candidates[1]).csi)
    /\ Candidates[1].confidence = Rat(1, 3)

\* C28: a candidate whose window holds no event has csi = 1 and ads = 0;
\* without a prior boost its probability is 0.35*bls, at most 0.35, its
\* confidence 0 or 1/3 and its searchRadius "wide"; with a matching prior its
\* probability is at most 0.42 and its searchRadius still "wide".
C28_QuietZoneIsWide ==
    (Ranked /\ ~rres.raised) =>
        \A i \in 1..Len(Candidates) :
            LET c == Candidates[i]
                sc == ScoresOf(c)
            IN  Win(ZoneOf(c)) = <<>> =>
                    /\ sc.csi = ROne
                    /\ sc.ads = RZero
                    /\ c.searchRadius = "wide"
                    /\ IF Matches(c)
                       THEN RLeq(c.probability, Rat(21, 50))
                       ELSE /\ REq(c.probability, RMul(Rat(7, 20), sc.bls))
                            /\ RLeq(c.probability, Rat(7, 20))
                            /\ c.confidence \in {RZero, Rat(1, 3)}

C28_Witness ==
    /\ Ranked
    /\ ~rres.raised
    /\ HasPrior
    /\ Len(Candidates) = 2
    /\ rep.events.disruptions # <<>>
    /\ Win(ZoneOf(Candidates[1])) = <<>>
    /\ Win(ZoneOf(Candidates[2])) = <<>>
    /\ Matches(Candidates[1])
    /\ Candidates[1].probability = Rat(21, 50)
    /\ Candidates[1].searchRadius = "wide"
    /\ ~Matches(Candidates[2])
    /\ REq(Candidates[2].probability, Rat(7, 40))
    /\ Candidates[2].confidence = RZero
    /\ Candidates[2].searchRadius = "wide"

----------------------------------------------------------------------------
(* Properties of edge weights and of the fields the operations pass through *)

\* C29: in a graph built from createEmptyGraph() by recordTransition calls
\* only, every edge has weight exactly 1.0 after any number of repeats of any
\* transition, so the weight of an edge used often equals the weight of an
\* edge used once.
C29_TransitionWeightsAreOne ==
    \A r \in LiveRefs : \A i \in 1..Len(heap[r].edges) : heap[r].edges[i].weight = ROne

C29_Witness ==
    /\ IsQuery("recordTransition")
    /\ Len(Before.edges) = 2
    /\ Len(After.edges) = 2
    /\ After.edges # Before.edges
    /\ After.edges[1].weight = ROne
    /\ After.edges[2].weight = ROne

GrowthOps == {"addZone", "addEdge", "recordTransition"}

\* C30: addZone, addEdge and recordTransition never change graphId,
\* createdTime, metadata.versionId or metadata.estimatedHomeSize; a graph
\* grown from createEmptyGraph() keeps metadata.estimatedHomeSize = "small"
\* however many zones it holds, whatever estimateHomeSize answers.
C30_PassThroughFields ==
    /\ (last.op \in GrowthOps =>
            /\ After.graphId = Before.graphId
            /\ After.createdTime = Before.createdTime
            /\ After.metadata.versionId = Before.metadata.versionId
            /\ After.metadata.estimatedHomeSize = Before.metadata.estimatedHomeSize)
    /\ \A r \in LiveRefs : heap[r].metadata.estimatedHomeSize = "small"

C30_Witness ==
    /\ IsQuery("estimateHomeSize")
    /\ Len(heap[graph].zones) = 5
    /\ Len(heap[graph].edges) = 2
    /\ Result = "medium"
    /\ heap[graph].metadata.estimatedHomeSize = "small"

----------------------------------------------------------------------------
(* Properties of the hooks *)

InferenceCalled == IsQuery("inferLossLocation")

\* C25: inferLossLocation called while the store holds no current episode or
\* no zone graph does not run the ranking and ends with isRunning false, no
\* candidates, no scores and the error 'Episode or graph not loaded',
\* whatever an earlier query left in the state.
C25_MissingContextError ==
    (InferenceCalled /\ ~last.loaded) =>
        /\ pc = Idle
        /\ inf = MissingContext

\* C26: every call of inferLossLocation ends with isRunning false and either
\* no error with the candidates and scores of the call, or an error with no
\* candidates and no scores; in every state of the hook an error implies no
\* candidates and no scores.
C26_ErrorMeansNoResults ==
    /\ (inf.error # Null => inf.candidates = <<>> /\ inf.scores = Null)
    /\ (pc = Idle => ~inf.isRunning)
    /\ ((InferenceCalled /\ pc = Idle /\ inf.error = Null) => inf.scores # Null)

C26_Witness ==
    /\ InferenceCalled
    /\ pc = Idle
    /\ last.before.candidates # <<>>
    /\ inf.error = [message |-> "TypeError"]
    /\ inf.candidates = <<>>
    /\ inf.scores = Null
    /\ ~inf.isRunning

Reflected(u, g) ==
    IF g = Null THEN FALSE
    ELSE IF "zone" \in DOMAIN u
         THEN \E i \in 1..Len(g.zones) : g.zones[i].zoneId = u.zone
         ELSE \E i \in 1..Len(g.edges) :
                  g.edges[i].fromZoneId = u.from /\ g.edges[i].toZoneId = u.to

\* C27: every addNewZone, addNewEdge or recordZoneTransition call issued
\* through useGraph while a graph is loaded is reflected in the store's
\* zoneGraph once the calls have completed: no update is lost, two calls
\* from callbacks of the same render included.
C27_NoLostUpdate ==
    \A u \in calls : Reflected(u, store.zoneGraph)

====
